---------------------------- MODULE Spec2Model ----------------------------
(***************************************************************************)
(* A model of finetune.py: the prompt builder, the tokenize-and-mask       *)
(* preprocessor, the batch collator, and the barrier protocol that train() *)
(* wraps around the dataset map call.                                      *)
(*                                                                         *)
(* Text is a sequence of one-character strings.  The text of a special     *)
(* token (eos_token) is one element, "<eos>": the tokenizer turns it into  *)
(* one id, as it does with the eos text that train_tokenize_function       *)
(* appends to every target.                                                *)
(***************************************************************************)
EXTENDS Integers, Sequences, FiniteSets, TLC

VARIABLES
    tokenizer,           \* [pad_token_id, eos_token_id, model_max_length]
    phase,               \* position of the data path in train()
    raw_train_datasets,  \* the loaded records, [instruction, output]
    cursor,              \* records of raw_train_datasets already mapped
    train_dataset,       \* the tokenized examples produced by map
    call,                \* the last call of train_tokenize_function
    batch,               \* the last call of the collator
    local_rank,          \* process -> training_args.local_rank
    node,                \* process -> the machine it runs on
    pc,                  \* process -> position in train()
    barrier_calls,       \* process -> calls of torch.distributed.barrier so far
    barrier_at,          \* process -> where it called the barrier
    map_started,         \* process -> its map call has begun
    map_done,            \* process -> its map call has returned
    cache                \* node -> the mapped dataset is in the cache

dataVars == <<tokenizer, phase, raw_train_datasets, cursor, train_dataset, call, batch>>
procVars == <<local_rank, node, pc, barrier_calls, barrier_at, map_started, map_done, cache>>
vars == <<tokenizer, phase, raw_train_datasets, cursor, train_dataset, call, batch,
          local_rank, node, pc, barrier_calls, barrier_at, map_started, map_done, cache>>

---------------------------------------------------------------------------
(* Bounds of the model. *)

MaxRecords == 2     \* records in the raw dataset
MaxBatch == 2       \* examples the trainer hands to the collator at once
MaxNodes == 2       \* machines of a distributed run
MaxLocal == 2       \* processes per machine

\* A sequence given as a function, evaluated once and for all.
List(f) == <<>> \o f

Min(a, b) == IF a <= b THEN a ELSE b

Max(a, b) == IF a >= b THEN a ELSE b

---------------------------------------------------------------------------
(* Program constants. *)

IGNORE_INDEX == -100

None == -1

batch_size == 64

eos_token == <<"<eos>">>

\* The format string of build_instruction_prompt.
Template ==
    <<"#", " ", "T", "h", "i", "s", " ", "i", "s", " ", "t", "h", "e", " ",
      "a", "s", "s", "e", "m", "b", "l", "y", " ", "c", "o", "d", "e", ":", "\n",
      "{", "}",
      "\n", "#", " ", "W", "h", "a", "t", " ", "i", "s", " ", "t", "h", "e", " ",
      "s", "o", "u", "r", "c", "e", " ", "c", "o", "d", "e", "?", "\n">>

---------------------------------------------------------------------------
(* str.format with one positional argument: "{{" and "}}" are escapes,     *)
(* "{}" is the replacement field, and the argument is inserted as it is,   *)
(* never scanned again.                                                    *)

\* The index of the first brace of t, Len(t) + 1 if it has none.
FirstBrace(t) ==
    LET at == {i \in 1..Len(t) : t[i] \in {"{", "}"}}
    IN  IF at = {} THEN Len(t) + 1 ELSE CHOOSE i \in at : \A j \in at : i <= j

RECURSIVE str_format(_, _)
str_format(t, arg) ==
    LET k == FirstBrace(t)
        literal == SubSeq(t, 1, k - 1)
        rest == SubSeq(t, k + 2, Len(t))
    IN  IF k > Len(t) THEN t
        ELSE IF k < Len(t) /\ t[k] = "{" /\ t[k + 1] = "{"
             THEN literal \o <<"{">> \o str_format(rest, arg)
        ELSE IF k < Len(t) /\ t[k] = "}" /\ t[k + 1] = "}"
             THEN literal \o <<"}">> \o str_format(rest, arg)
        ELSE IF k < Len(t) /\ t[k] = "{" /\ t[k + 1] = "}"
             THEN literal \o arg \o str_format(rest, arg)
        ELSE literal \o <<t[k]>> \o str_format(SubSeq(t, k + 1, Len(t)), arg)

\* A formatter that scans the text again after the substitution.
Mut_build_instruction_prompt(instruction) ==
    str_format(str_format(Template, instruction), instruction)

build_instruction_prompt(instruction) == str_format(Template, instruction)

---------------------------------------------------------------------------
(* The tokenizer, as _tokenize_fn uses it.  It splits the text in pieces   *)
(* (greedily, two newlines making one piece, so that the pieces of a       *)
(* concatenation are not the concatenation of the pieces), maps each piece *)
(* to its id in the vocabulary, and truncates to model_max_length.         *)

Vocab ==
    <<"<eos>", "<pad>", "\n", "\n\n", "#", " ", "T", "h", "i", "s", "t", "e",
      "a", "m", "b", "l", "y", "c", "o", "d", ":", "W", "u", "r", "?", "{", "}">>

TokenId(piece) == CHOOSE i \in 1..Len(Vocab) : Vocab[i] = piece

\* The first index of text where two newlines start, Len(text) + 1 if none.
FirstPair(text) ==
    LET at == {i \in 1..(Len(text) - 1) : text[i] = "\n" /\ text[i + 1] = "\n"}
    IN  IF at = {} THEN Len(text) + 1 ELSE CHOOSE i \in at : \A j \in at : i <= j

RECURSIVE Pieces(_)
Pieces(text) ==
    LET k == FirstPair(text)
    IN  IF k > Len(text) THEN text
        ELSE SubSeq(text, 1, k - 1) \o <<"\n\n">> \o Pieces(SubSeq(text, k + 2, Len(text)))

Encode(text) ==
    LET p == Pieces(text) IN List([i \in 1..Len(p) |-> TokenId(p[i])])

\* truncation=False
Mut_Truncate(ids, max_length) == ids

Truncate(ids, max_length) == SubSeq(ids, 1, Min(Len(ids), max_length))

\* tokenizer(text, ..., max_length=tokenizer.model_max_length, truncation=True).input_ids[0]
TokenizerCall(text) == Truncate(Encode(text), tokenizer.model_max_length)

\* tokenized.input_ids.ne(tokenizer.pad_token_id).sum().item()
CountNe(ids, v) == Cardinality({i \in 1..Len(ids) : ids[i] # v})

---------------------------------------------------------------------------
(* Objects.  A heap is a sequence of tensors and a tensor's address is its *)
(* index; a Python list of tensors is a sequence of addresses.  Two names  *)
(* of one object hold the same addresses.                                  *)

\* The texts of one call tokenized together and padded to the longest.
Mut_tokenize_fn(strings, heap) ==
    LET toks == List([i \in 1..Len(strings) |-> TokenizerCall(strings[i])])
        RECURSIVE Longest(_)
        Longest(i) == IF i = 0 THEN 0 ELSE Max(Len(toks[i]), Longest(i - 1))
        width == Longest(Len(strings))
        padded == List([i \in 1..Len(strings) |->
                           List([j \in 1..width |->
                                    IF j <= Len(toks[i]) THEN toks[i][j]
                                    ELSE tokenizer.pad_token_id])])
        addrs == List([i \in 1..Len(strings) |-> Len(heap) + i])
        lens == List([i \in 1..Len(strings) |->
                         CountNe(padded[i], tokenizer.pad_token_id)])
    IN  [heap |-> heap \o padded, input_ids |-> addrs, labels |-> addrs,
         input_ids_lens |-> lens, labels_lens |-> lens]

tokenize_fn(strings, heap) ==
    LET toks == List([i \in 1..Len(strings) |-> TokenizerCall(strings[i])])
        addrs == List([i \in 1..Len(strings) |-> Len(heap) + i])
        lens == List([i \in 1..Len(strings) |-> CountNe(toks[i], tokenizer.pad_token_id)])
    IN  [heap |-> heap \o toks, input_ids |-> addrs, labels |-> addrs,
         input_ids_lens |-> lens, labels_lens |-> lens]

\* labels = input_ids: the same tensors under a second name.
Mut_deepcopy(heap, refs) == [heap |-> heap, refs |-> refs]

deepcopy(heap, refs) ==
    [heap |-> heap \o [i \in 1..Len(refs) |-> heap[refs[i]]],
     refs |-> List([i \in 1..Len(refs) |-> Len(heap) + i])]

\* label[:n] = v, one position short.
Mut_SliceAssign(t, n, v) ==
    [j \in 1..Len(t) |-> IF j < n THEN v ELSE t[j]]

\* label[:n] = v on a tensor: a slice ends at the tensor's end.
SliceAssign(t, n, v) ==
    List([j \in 1..Len(t) |-> IF j <= n THEN v ELSE t[j]])

\* for label, source_len in zip(labels, lens): label[:source_len] = IGNORE_INDEX
RECURSIVE MaskLabels(_, _, _, _)
MaskLabels(heap, labels, lens, i) ==
    IF i > Min(Len(labels), Len(lens)) THEN heap
    ELSE MaskLabels(
             [heap EXCEPT ![labels[i]] = SliceAssign(heap[labels[i]], lens[i], IGNORE_INDEX)],
             labels, lens, i + 1)

preprocess(sources, targets) ==
    LET n == Min(Len(sources), Len(targets))
        examples == List([i \in 1..n |-> sources[i] \o targets[i]])
        examples_tokenized == tokenize_fn(examples, <<>>)
        sources_tokenized == tokenize_fn(sources, examples_tokenized.heap)
        input_ids == examples_tokenized.input_ids
        copied == deepcopy(sources_tokenized.heap, input_ids)
        labels == copied.refs
        heap == MaskLabels(copied.heap, labels, sources_tokenized.input_ids_lens, 1)
    IN  [input_ids |-> List([i \in 1..Len(input_ids) |-> heap[input_ids[i]]]),
         labels |-> List([i \in 1..Len(labels) |-> heap[labels[i]]]),
         source_lens |-> sources_tokenized.input_ids_lens]

train_tokenize_function(examples) ==
    LET sources == List([i \in 1..Len(examples) |->
                            build_instruction_prompt(examples[i].instruction)])
        targets == List([i \in 1..Len(examples) |->
                            examples[i].output \o <<"\n">> \o eos_token])
        data_dict == preprocess(sources, targets)
    IN  [instructions |-> List([i \in 1..Len(examples) |-> examples[i].instruction]),
         sources |-> sources, targets |-> targets,
         source_lens |-> data_dict.source_lens,
         input_ids |-> data_dict.input_ids, labels |-> data_dict.labels]

---------------------------------------------------------------------------
(* The collator. *)

RECURSIVE MaxLen(_)
MaxLen(seqs) ==
    IF seqs = <<>> THEN 0 ELSE Max(Len(Head(seqs)), MaxLen(Tail(seqs)))

\* torch.nn.utils.rnn.pad_sequence(seqs, batch_first=True, padding_value=v)
pad_sequence(seqs, v) ==
    LET width == MaxLen(seqs)
    IN  List([i \in 1..Len(seqs) |->
                 List([j \in 1..width |-> IF j <= Len(seqs[i]) THEN seqs[i][j] ELSE v])])

\* The labels padded with the pad token id.
Mut_DataCollator(instances) ==
    LET input_ids == pad_sequence(List([i \in 1..Len(instances) |-> instances[i].input_ids]),
                                  tokenizer.pad_token_id)
        labels == pad_sequence(List([i \in 1..Len(instances) |-> instances[i].labels]),
                               tokenizer.pad_token_id)
    IN  [input_ids |-> input_ids, labels |-> labels,
         attention_mask |-> List([i \in 1..Len(input_ids) |->
                                     List([j \in 1..Len(input_ids[i]) |->
                                              input_ids[i][j] # tokenizer.pad_token_id])])]

DataCollator(instances) ==
    LET input_ids == pad_sequence(List([i \in 1..Len(instances) |-> instances[i].input_ids]),
                                  tokenizer.pad_token_id)
        labels == pad_sequence(List([i \in 1..Len(instances) |-> instances[i].labels]),
                               IGNORE_INDEX)
    IN  [input_ids |-> input_ids, labels |-> labels,
         attention_mask |-> List([i \in 1..Len(input_ids) |->
                                     List([j \in 1..Len(input_ids[i]) |->
                                              input_ids[i][j] # tokenizer.pad_token_id])])]

---------------------------------------------------------------------------
(* The data path of one process of train(). *)

Instructions == { <<>>, <<"{", "}", "\n">>, <<"<eos>">> }

Outputs == { <<"a">>, <<"\n", "a", "b">> }

Records == [instruction : Instructions, output : Outputs]

\* model_max_length: shorter than every prompt, cutting inside some targets,
\* and the default.
ModelMaxLengths == {8, 59, 512}

\* The tokenizer as from_pretrained returns it: with a pad token of its own, or none.
LoadedTokenizers ==
    [pad_token_id : {TokenId("<pad>"), None},
     eos_token_id : {TokenId("<eos>")},
     model_max_length : ModelMaxLengths]

NoCall ==
    [instructions |-> <<>>, sources |-> <<>>, targets |-> <<>>, source_lens |-> <<>>,
     input_ids |-> <<>>, labels |-> <<>>]

NoBatch ==
    [instances |-> <<>>, input_ids |-> <<>>, labels |-> <<>>, attention_mask |-> <<>>]

NoProcs == [p \in {} |-> 0]

DataInit ==
    /\ tokenizer \in LoadedTokenizers
    /\ phase = "loaded"
    /\ raw_train_datasets \in UNION {[1..n -> Records] : n \in 1..MaxRecords}
    /\ cursor = 0
    /\ train_dataset = <<>>
    /\ call = NoCall
    /\ batch = NoBatch
    /\ local_rank = NoProcs /\ node = NoProcs /\ pc = NoProcs
    /\ barrier_calls = NoProcs /\ barrier_at = NoProcs
    /\ map_started = NoProcs /\ map_done = NoProcs /\ cache = NoProcs

\* if tokenizer.pad_token is None: ... pad_token_id = eos_token_id
SetupTokenizer ==
    /\ phase = "loaded"
    /\ tokenizer' = IF tokenizer.pad_token_id = None
                    THEN [tokenizer EXCEPT !.pad_token_id = tokenizer.eos_token_id]
                    ELSE tokenizer
    /\ phase' = "map"
    /\ UNCHANGED <<raw_train_datasets, cursor, train_dataset, call, batch>>
    /\ UNCHANGED procVars

\* One call of train_tokenize_function by raw_train_datasets.map, on the next
\* k records; its columns are appended to the mapped dataset.
MapBatch(k) ==
    /\ phase = "map"
    /\ cursor + k <= Len(raw_train_datasets)
    /\ k <= batch_size
    /\ LET examples == SubSeq(raw_train_datasets, cursor + 1, cursor + k)
           out == train_tokenize_function(examples)
       IN  /\ call' = out
           /\ train_dataset' = train_dataset \o
                  [i \in 1..k |-> [input_ids |-> out.input_ids[i], labels |-> out.labels[i]]]
    /\ cursor' = cursor + k
    /\ UNCHANGED <<tokenizer, phase, raw_train_datasets, batch>>
    /\ UNCHANGED procVars

\* raw_train_datasets.map returns: every record is mapped, and what the last
\* call of train_tokenize_function held is gone.
MapReturn ==
    /\ phase = "map"
    /\ cursor = Len(raw_train_datasets)
    /\ call' = NoCall
    /\ phase' = "train"
    /\ UNCHANGED <<tokenizer, raw_train_datasets, cursor, train_dataset, batch>>
    /\ UNCHANGED procVars

\* The examples of one training step: distinct rows of the mapped dataset, in
\* the order the trainer's sampler chose.
Samples ==
    {s \in UNION {[1..n -> 1..Len(train_dataset)] : n \in 1..Min(MaxBatch, Len(train_dataset))} :
        \A i, j \in DOMAIN s : i # j => s[i] # s[j]}

Collate(s) ==
    /\ phase = "train"
    /\ LET instances == List([i \in 1..Len(s) |-> train_dataset[s[i]]])
           out == DataCollator(instances)
       IN  batch' = [instances |-> instances, input_ids |-> out.input_ids,
                     labels |-> out.labels, attention_mask |-> out.attention_mask]
    /\ phase' = "step"
    /\ UNCHANGED <<tokenizer, raw_train_datasets, cursor, train_dataset, call>>
    /\ UNCHANGED procVars

\* The trainer has used the batch of this step and drops it.
TrainStep ==
    /\ phase = "step"
    /\ batch' = NoBatch
    /\ phase' = "train"
    /\ UNCHANGED <<tokenizer, raw_train_datasets, cursor, train_dataset, call>>
    /\ UNCHANGED procVars

DataNext ==
    \/ SetupTokenizer
    \/ \E k \in 1..MaxRecords : MapBatch(k)
    \/ MapReturn
    \/ \E s \in Samples : Collate(s)
    \/ TrainStep

Spec == DataInit /\ [][DataNext]_vars

---------------------------------------------------------------------------
(* The processes of train() around the map call (lines 187 to 214).        *)
(* torch.distributed.barrier() returns to a process once every process of  *)
(* the run has made as many barrier calls as it has.  The map call writes  *)
(* the mapped dataset to the cache of its machine; a later map call on     *)
(* that machine loads it (load_from_cache_file=True) and computes nothing. *)

AllProcs == 1..(MaxNodes * MaxLocal)

Procs == DOMAIN pc

\* A run without torch.distributed (local_rank -1), or nodes x locals processes.
Topologies ==
    {[nodes |-> 1, locals |-> 1, distributed |-> FALSE]} \cup
    [nodes : 1..MaxNodes, locals : 1..MaxLocal, distributed : {TRUE}]

DefaultTokenizer ==
    [pad_token_id |-> TokenId("<pad>"), eos_token_id |-> TokenId("<eos>"),
     model_max_length |-> 512]

TrainInit ==
    /\ \E t \in Topologies :
         LET ps == 1..(t.nodes * t.locals) IN
         /\ local_rank = [p \in ps |-> IF t.distributed THEN (p - 1) % t.locals ELSE -1]
         /\ node = [p \in ps |-> ((p - 1) \div t.locals) + 1]
         /\ pc = [p \in ps |-> "line187"]
         /\ barrier_calls = [p \in ps |-> 0]
         /\ barrier_at = [p \in ps |-> "none"]
         /\ map_started = [p \in ps |-> "no"]
         /\ map_done = [p \in ps |-> FALSE]
         /\ cache = [n \in 1..t.nodes |-> FALSE]
    /\ tokenizer = DefaultTokenizer
    /\ phase = "loaded"
    /\ raw_train_datasets = <<>>
    /\ cursor = 0
    /\ train_dataset = <<>>
    /\ call = NoCall
    /\ batch = NoBatch

\* if training_args.local_rank > 0, copied to the second test.
Mut_WaitsAfterMap(p) == local_rank[p] > 0

\* line 201: if training_args.local_rank == 0
WaitsAfterMap(p) == local_rank[p] = 0

\* The test one off: local rank 1 does not wait.
Mut_WaitsBeforeMap(p) == local_rank[p] > 1

\* line 187: if training_args.local_rank > 0
WaitsBeforeMap(p) == local_rank[p] > 0

EnterBarrier(p, where) ==
    /\ barrier_calls' = [barrier_calls EXCEPT ![p] = @ + 1]
    /\ barrier_at' = [barrier_at EXCEPT ![p] = where]

CheckRankBeforeMap(p) ==
    /\ pc[p] = "line187"
    /\ IF WaitsBeforeMap(p)
       THEN /\ EnterBarrier(p, IF map_started[p] = "no" THEN "before_map" ELSE "after_map")
            /\ pc' = [pc EXCEPT ![p] = "line188"]
       ELSE /\ pc' = [pc EXCEPT ![p] = "line190"]
            /\ UNCHANGED <<barrier_calls, barrier_at>>
    /\ UNCHANGED <<local_rank, node, map_started, map_done, cache>>
    /\ UNCHANGED dataVars

\* torch.distributed.barrier() returns.
BarrierReturn(p) ==
    /\ pc[p] \in {"line188", "line202"}
    /\ \A q \in Procs : barrier_calls[q] >= barrier_calls[p]
    /\ pc' = [pc EXCEPT ![p] = IF pc[p] = "line188" THEN "line190" ELSE "line214"]
    /\ UNCHANGED <<local_rank, node, barrier_calls, barrier_at, map_started, map_done, cache>>
    /\ UNCHANGED dataVars

\* raw_train_datasets.map(...) is entered: it computes, or finds the cache.
BeginMap(p) ==
    /\ pc[p] = "line190"
    /\ map_started' = [map_started EXCEPT ![p] = IF cache[node[p]] THEN "cached" ELSE "computing"]
    /\ pc' = [pc EXCEPT ![p] = "mapping"]
    /\ UNCHANGED <<local_rank, node, barrier_calls, barrier_at, map_done, cache>>
    /\ UNCHANGED dataVars

EndMap(p) ==
    /\ pc[p] = "mapping"
    /\ map_done' = [map_done EXCEPT ![p] = TRUE]
    /\ cache' = [cache EXCEPT ![node[p]] = TRUE]
    /\ pc' = [pc EXCEPT ![p] = "line201"]
    /\ UNCHANGED <<local_rank, node, barrier_calls, barrier_at, map_started>>
    /\ UNCHANGED dataVars

\* The tokenize function raises in a map call that computes: the process ends.
MapRaises(p) ==
    /\ pc[p] = "mapping"
    /\ map_started[p] = "computing"
    /\ pc' = [pc EXCEPT ![p] = "raised"]
    /\ UNCHANGED <<local_rank, node, barrier_calls, barrier_at, map_started, map_done, cache>>
    /\ UNCHANGED dataVars

CheckRankAfterMap(p) ==
    /\ pc[p] = "line201"
    /\ IF WaitsAfterMap(p)
       THEN /\ EnterBarrier(p, IF map_done[p] THEN "after_map" ELSE "before_map")
            /\ pc' = [pc EXCEPT ![p] = "line202"]
       ELSE /\ pc' = [pc EXCEPT ![p] = "line214"]
            /\ UNCHANGED <<barrier_calls, barrier_at>>
    /\ UNCHANGED <<local_rank, node, map_started, map_done, cache>>
    /\ UNCHANGED dataVars

\* What a running process does next, the exception apart.
Step(p) ==
    /\ p \in Procs
    /\ \/ CheckRankBeforeMap(p)
       \/ BarrierReturn(p)
       \/ BeginMap(p)
       \/ EndMap(p)
       \/ CheckRankAfterMap(p)

TrainNext ==
    \/ \E p \in Procs : CheckRankBeforeMap(p)
    \/ \E p \in Procs : BarrierReturn(p)
    \/ \E p \in Procs : BeginMap(p)
    \/ \E p \in Procs : EndMap(p)
    \/ \E p \in Procs : MapRaises(p)
    \/ \E p \in Procs : CheckRankAfterMap(p)

\* Every process is an operating-system process of its own: it keeps running.
TrainSpec ==
    TrainInit /\ [][TrainNext]_vars /\ \A p \in AllProcs : WF_vars(Step(p))

---------------------------------------------------------------------------
(* The claims. *)

Examples == 1..Len(call.input_ids)

\* The tokens of a text before truncation and after it.
Untruncated(text) == Encode(text)

Tokenized(text) ==
    LET ids == Encode(text)
    IN  [j \in 1..Min(Len(ids), tokenizer.model_max_length) |-> ids[j]]

AllIgnore(labels) == \A j \in 1..Len(labels) : labels[j] = IGNORE_INDEX

\* C1 (as claimed): with P the number of tokens of the tokenized prompt and
\* P <= L, the labels are IGNORE at exactly the first P positions and equal
\* input_ids from position P on.
C1_PromptPrefixMasked ==
    \A i \in Examples :
        LET P == Len(Tokenized(call.sources[i]))
            L == Len(call.input_ids[i])
        IN  P <= L =>
              /\ \A j \in 1..P : call.labels[i][j] = IGNORE_INDEX
              /\ \A j \in (P + 1)..L : /\ call.labels[i][j] = call.input_ids[i][j]
                                       /\ call.labels[i][j] # IGNORE_INDEX

\* C2: the collator's three outputs have one row per example and as many
\* columns as the longest input_ids; a row of input_ids is the example's
\* input_ids and then pad ids only, a row of labels the example's labels and
\* then IGNORE only.
C2_CollatorPads ==
    LET n == Len(batch.instances)
        width == MaxLen([i \in 1..n |-> batch.instances[i].input_ids])
    IN  n > 0 =>
          /\ Len(batch.input_ids) = n
          /\ Len(batch.labels) = n
          /\ Len(batch.attention_mask) = n
          /\ \A i \in 1..n :
               LET ids == batch.instances[i].input_ids
                   lab == batch.instances[i].labels
               IN  /\ Len(batch.input_ids[i]) = width
                   /\ Len(batch.labels[i]) = width
                   /\ Len(batch.attention_mask[i]) = width
                   /\ SubSeq(batch.input_ids[i], 1, Len(ids)) = ids
                   /\ \A j \in (Len(ids) + 1)..width :
                          batch.input_ids[i][j] = tokenizer.pad_token_id
                   /\ SubSeq(batch.labels[i], 1, Len(lab)) = lab
                   /\ \A j \in (Len(lab) + 1)..width :
                          batch.labels[i][j] = IGNORE_INDEX

C2_Witness ==
    /\ Len(batch.instances) >= 2
    /\ \E i, k \in 1..Len(batch.instances) :
          /\ Len(batch.instances[i].input_ids) < Len(batch.instances[k].input_ids)
          /\ batch.labels[i][Len(batch.labels[i])] = IGNORE_INDEX
          /\ batch.input_ids[i][Len(batch.input_ids[i])] = tokenizer.pad_token_id

\* C3 (as claimed): in a batch of examples of the training pipeline the
\* attention mask is true at every position of an example's own tokens and
\* false at every padded position.
C3_MaskMarksRealTokens ==
    \A i \in 1..Len(batch.instances) :
        \A j \in 1..Len(batch.attention_mask[i]) :
            batch.attention_mask[i][j] = (j <= Len(batch.instances[i].input_ids))

\* C5: an example whose prompt_len is at least the length of its input_ids
\* is returned, with IGNORE at every position of its labels.
C5_PromptFillsBudget ==
    \A i \in Examples :
        call.source_lens[i] >= Len(call.input_ids[i]) =>
            /\ Len(call.labels[i]) = Len(call.input_ids[i])
            /\ AllIgnore(call.labels[i])

C5_Witness ==
    \E i \in Examples :
        /\ Len(Untruncated(call.sources[i])) > tokenizer.model_max_length
        /\ call.source_lens[i] >= Len(call.input_ids[i])
        /\ Len(call.labels[i]) > 0
        /\ AllIgnore(call.labels[i])

\* C6: input_ids and labels of a returned example have one length, and it is
\* at most model_max_length, whatever the length of the untruncated tokens.
C6_LengthsBounded ==
    \A i \in Examples :
        /\ Len(call.input_ids[i]) = Len(call.labels[i])
        /\ Len(call.input_ids[i]) <= tokenizer.model_max_length

C6_Witness ==
    \E i \in Examples :
        /\ Len(Untruncated(call.sources[i] \o call.targets[i])) > tokenizer.model_max_length
        /\ Len(call.input_ids[i]) = tokenizer.model_max_length

Header ==
    <<"#", " ", "T", "h", "i", "s", " ", "i", "s", " ", "t", "h", "e", " ",
      "a", "s", "s", "e", "m", "b", "l", "y", " ", "c", "o", "d", "e", ":", "\n">>

Footer ==
    <<"\n", "#", " ", "W", "h", "a", "t", " ", "i", "s", " ", "t", "h", "e", " ",
      "s", "o", "u", "r", "c", "e", " ", "c", "o", "d", "e", "?", "\n">>

\* C7: the prompt built from an instruction is the header line, the
\* instruction unchanged, a newline and the footer line; it is never empty.
C7_PromptIsTemplate ==
    \A i \in 1..Len(call.sources) :
        /\ call.sources[i] = Header \o call.instructions[i] \o Footer
        /\ Len(call.sources[i]) > 0

C7_Witness ==
    /\ \E i \in 1..Len(call.sources) :
          \E j \in 1..Len(call.instructions[i]) : call.instructions[i][j] = "{"
    /\ \E i \in 1..Len(call.sources) :
          call.instructions[i] = <<>> \/ "\n" \in {call.instructions[i][j] : j \in 1..Len(call.instructions[i])}

\* C8: what preprocess returns for a pair does not depend on the other pairs
\* of the call: it is what a call on that pair alone returns, and equal pairs
\* of a call get equal input_ids and labels.
C8_Repeatable ==
    /\ \A i \in Examples :
          LET alone == preprocess(<<call.sources[i]>>, <<call.targets[i]>>)
          IN  /\ call.input_ids[i] = alone.input_ids[1]
              /\ call.labels[i] = alone.labels[1]
    /\ \A i, k \in Examples :
          (call.sources[i] = call.sources[k] /\ call.targets[i] = call.targets[k]) =>
              /\ call.input_ids[i] = call.input_ids[k]
              /\ call.labels[i] = call.labels[k]

C8_Witness ==
    \E i, k \in Examples :
        /\ i # k
        /\ Len(call.input_ids[i]) < Len(call.input_ids[k])

\* C10: the input_ids preprocess returns are the truncated tokens of
\* prompt + target at every position, the masked prompt positions included.
C10_InputIdsUntouched ==
    \A i \in Examples :
        call.input_ids[i] = Tokenized(call.sources[i] \o call.targets[i])

C10_Witness ==
    \E i \in Examples :
        /\ call.source_lens[i] > 0
        /\ call.labels[i][1] = IGNORE_INDEX
        /\ call.input_ids[i][1] = TokenId("#")

---------------------------------------------------------------------------
(* The claims about the barrier protocol. *)

Computing == {p \in Procs : map_started[p] = "computing"}

\* C4 (as claimed): one process alone performs the preprocessing pass, and
\* while its map call has not returned no other process has started a map call.
C4_OneProcessMaps ==
    /\ Cardinality(Computing) <= 1
    /\ \A p, q \in Procs :
          (p # q /\ map_started[p] = "computing" /\ ~map_done[p]) =>
              map_started[q] = "no"

\* C4 (amended): on every machine one process alone, the one of local rank 0
\* (or -1), performs the preprocessing pass; a process of local rank above 0
\* starts its map call only after the map call of every process of local
\* rank 0 has returned, and then finds the cache.
C4_OneProcessMapsPerNode ==
    /\ \A p \in Computing : local_rank[p] <= 0
    /\ \A p, q \in Computing : node[p] = node[q] => p = q
    /\ \A q \in Procs :
          (local_rank[q] > 0 /\ map_started[q] # "no") =>
              /\ map_started[q] = "cached"
              /\ \A p \in Procs : local_rank[p] = 0 => map_done[p]

C4_Witness ==
    \E p, q \in Procs :
        /\ node[p] = node[q]
        /\ local_rank[p] = 0 /\ map_done[p]
        /\ local_rank[q] > 0 /\ map_started[q] = "cached" /\ pc[q] = "mapping"

C9_BarrierCalls ==
    \A p \in Procs :
        /\ barrier_calls[p] <= 1
        /\ local_rank[p] < 0 => barrier_calls[p] = 0
        /\ (local_rank[p] > 0 /\ barrier_calls[p] = 1) => barrier_at[p] = "before_map"
        /\ (local_rank[p] > 0 /\ map_started[p] # "no") => barrier_calls[p] = 1
        /\ (local_rank[p] = 0 /\ barrier_calls[p] = 1) => barrier_at[p] = "after_map"
        /\ pc[p] = "line214" => barrier_calls[p] = (IF local_rank[p] >= 0 THEN 1 ELSE 0)

SomeMapRaised == \E p \in Procs : pc[p] = "raised"

AllAtTrainer == \A p \in Procs : pc[p] = "line214"

=============================================================================
